---- MODULE Spec2Model ----
(***************************************************************************)
(* A model of EsProcessing.py: dumping the mappings and documents of an    *)
(* Elasticsearch 2.0 cluster to local files and uploading them again.      *)
(*                                                                         *)
(* Text (urls, file paths, index and type names) is a sequence of atoms.   *)
(* The atoms are chosen so that every text has one spelling only: the      *)
(* separators "/", ".", "?", "&", "=" are atoms of their own and no other  *)
(* atom contains one.                                                      *)
(***************************************************************************)
EXTENDS Integers, Sequences, FiniteSets, TLC

(***************************************************************************)
(* Python values                                                           *)
(***************************************************************************)
\* Python's None, where a text is expected.
NoneV == <<"<None>">>

\* bool(x) of a str-or-None: None and '' are falsy.
Truthy(s) == s # NoneV /\ s # <<>>

\* str.endswith
EndsWith(s, suf) ==
    /\ Len(s) >= Len(suf)
    /\ SubSeq(s, Len(s) - Len(suf) + 1, Len(s)) = suf

\* str.startswith
StartsWith(s, pre) ==
    /\ Len(s) >= Len(pre)
    /\ SubSeq(s, 1, Len(pre)) = pre

\* sep.join(parts)
RECURSIVE Join(_, _)
Join(sep, parts) ==
    IF parts = <<>> THEN <<>>
    ELSE IF Len(parts) = 1 THEN parts[1]
    ELSE parts[1] \o sep \o Join(sep, Tail(parts))

\* ''.join(parts)
RECURSIVE Concat(_)
Concat(parts) ==
    IF parts = <<>> THEN <<>> ELSE parts[1] \o Concat(Tail(parts))

\* str.strip('.')
RECURSIVE LStripDot(_)
LStripDot(s) ==
    IF s # <<>> /\ Head(s) = "." THEN LStripDot(Tail(s)) ELSE s

RECURSIVE RStripDot(_)
RStripDot(s) ==
    IF s # <<>> /\ s[Len(s)] = "." THEN RStripDot(SubSeq(s, 1, Len(s) - 1)) ELSE s

StripDot(s) == RStripDot(LStripDot(s))

\* str.split('.'), which str.rsplit('.') without a maxsplit equals
RECURSIVE SplitDot(_)
SplitDot(s) ==
    IF \A k \in 1..Len(s) : s[k] # "." THEN <<s>>
    ELSE LET k == CHOOSE j \in 1..Len(s) :
                      s[j] = "." /\ \A l \in 1..(j - 1) : s[l] # "."
         IN <<SubSeq(s, 1, k - 1)>> \o SplitDot(SubSeq(s, k + 1, Len(s)))

\* os.path.join(a, b) on posix
os_path_join(a, b) ==
    IF StartsWith(b, <<"/">>) THEN b
    ELSE IF a = <<>> \/ EndsWith(a, <<"/">>) THEN a \o b
    ELSE a \o <<"/">> \o b

\* os.path.splitext(f)[0] of a file name without a directory: the name up to
\* its last dot, unless that dot is one of the leading dots.
splitext_root(f) ==
    LET dots == {k \in 1..Len(f) : f[k] = "."}
        lead == {k \in 1..Len(f) : \A l \in 1..k : f[l] = "."}
    IN IF dots \subseteq lead THEN f
       ELSE LET k == CHOOSE j \in dots : \A l \in dots : l <= j
            IN SubSeq(f, 1, k - 1)

(***************************************************************************)
(* EsProcessing.make_url and EsProcessing.make_fp                          *)
(***************************************************************************)
\* params is the sequence of the keyword arguments, <<key, value>> each, in
\* the order of the call.
make_url(uri, path, params) ==
    LET u == IF EndsWith(uri, <<"/">>) THEN uri ELSE uri \o <<"/">>
        p == Join(<<"/">>, SelectSeq(path, Truthy))
        q == Join(<<"&">>, [k \in 1..Len(params) |->
                               params[k][1] \o <<"=">> \o params[k][2]])
    IN IF q = <<>> THEN u \o p ELSE u \o p \o <<"?">> \o q

ExtJson == <<".", "json">>

make_fp(path, args) ==
    LET kept == SelectSeq(args, Truthy)
        fp == Join(<<".">>, [k \in 1..Len(kept) |-> StripDot(kept[k])])
    IN os_path_join(path, fp) \o ExtJson

(***************************************************************************)
(* Bounds                                                                  *)
(***************************************************************************)
\* Scroll-continuation requests one scroll_data run may issue.
MaxRequests == 3
\* Hits one response may carry.
MaxBatch == 2
\* Calls of save() and upload() one client makes.
MaxOps == 2
\* Documents of one type the cluster holds when save() scans it.
MaxDocs == 2

(***************************************************************************)
(* State                                                                   *)
(***************************************************************************)
VARIABLES
    self,       \* the EsProcessing object: uri, index_name, dirname
    dirs,       \* the directories that exist
    files,      \* the files that exist: path, content and, as a note, what was dumped into it
    cluster,    \* the body the cluster answers GET <uri>/[<index>/]_mapping with
    http,       \* the requests the running call issued on self.session, with their outcomes
    pc,         \* where the program is
    err,        \* the exception that left the running operation, or "none"
    op,         \* the running top-level call: name, type_name argument
    calls,      \* the top-level calls that have returned, in order
    data,       \* query_mappings: data, what query_from_url returned
    recs,       \* query_mappings: the records the running loop has still to take
    taken,      \* query_mappings: the records yielded so far
    genraise,   \* query_mappings: whether it raises KeyError after the last of recs
    cur,        \* dump_mapping / dump_data: the record i of the loop; scroll_data's arguments
    scroll_id,  \* scroll_data: scroll_id
    resp,       \* scroll_data: resp (type_resp before the loop)
    pending,    \* scroll_data: the hits of resp the for loop has still to yield
    yielded,    \* scroll_data: the hits yielded so far
    reqs,       \* scroll_data: the urls requested in this run, in order
    resps,      \* scroll_data: the responses received in this run, in order
    served,     \* the hits the cluster has sent in this run
    stock,      \* the documents of the scrolled type the cluster has still to send
    stored,     \* the documents of the index uploaded to: index, type, id
    type_name,  \* upload: type_name
    todo,       \* upload: the file names of os.walk not yet visited
    docs,       \* upload_data: the documents of data not yet visited
    fileops,    \* the files the running call opened: mode, path and, for a dump, what for
    derived     \* every type name upload() derived from a file name: file, type

configVars == <<self, dirs, cluster>>
scrollVars == <<scroll_id, resp, pending, yielded, reqs, resps, served, stock>>
mappingVars == <<data, recs, taken, genraise, cur>>
uploadVars == <<type_name, todo, docs, derived, stored>>
vars == <<self, dirs, files, cluster, http, pc, err, op, calls, data, recs, taken,
          genraise, cur,
          scroll_id, resp, pending, yielded, reqs, resps, served, stock, stored,
          type_name, todo, docs, fileops, derived>>

(***************************************************************************)
(* The cluster's answers                                                   *)
(***************************************************************************)
\* The scroll ids a response may carry: none, or an opaque token.
Cursors == {NoneV, <<"c1">>, <<"c2">>}

\* The j-th hit the cluster sends in a run. scroll_data never looks into a
\* hit, so hits are told apart by the order the cluster sent them in.
Hit(j) == [id |-> <<"d" \o ToString(j)>>, source |-> <<"src" \o ToString(j)>>]

HitsFrom(first, n) == [k \in 1..n |-> Hit(first + k - 1)]

\* A response to a search or scroll request: resp.get('_scroll_id'), and
\* resp['hits']['hits'] (has_hits: whether the body has it at all).
Response(c, has, first, n) ==
    [scroll_id |-> c, has_hits |-> has, hits |-> HitsFrom(first, n)]

NoResponse == Response(NoneV, FALSE, 1, 0)

\* What a request looks like in the log.
Request(m, u, b, r) == [method |-> m, url |-> u, body |-> b, result |-> r]

\* The values of the variables no operation has touched yet.
Untouched ==
    /\ http = <<>>
    /\ err = "none"
    /\ calls = <<>>
    /\ data = <<>>
    /\ recs = <<>>
    /\ taken = <<>>
    /\ genraise = FALSE
    /\ scroll_id = NoneV
    /\ resp = NoResponse
    /\ pending = <<>>
    /\ yielded = <<>>
    /\ reqs = <<>>
    /\ resps = <<>>
    /\ served = 0
    /\ stock = 0
    /\ stored = {}
    /\ type_name = NoneV
    /\ todo = {}
    /\ docs = <<>>
    /\ fileops = <<>>
    /\ derived = <<>>

(***************************************************************************)
(* EsProcessing.scroll_data                                                *)
(***************************************************************************)
ScrollTtl == <<"1m">>

\* line 110: the url of the initial search
type_url(uri, index, type) ==
    make_url(uri, <<index, type, <<"_search">>>>,
             <<<<<<"scroll">>, ScrollTtl>>, <<<<"search_type">>, <<"scan">>>>>>)

\* line 125: the url of a scroll-continuation request
scroll_url(uri, id) ==
    make_url(uri, <<<<"_search", "/", "scroll">>>>,
             <<<<<<"search_type">>, <<"scan">>>>, <<<<"scroll">>, ScrollTtl>>,
               <<<<"scroll_id">>, id>>>>)

after_initial_mutant(id) == "scroll_loop"

\* lines 114-116: without a scroll id in the initial response the generator
\* returns; with one it enters the loop.
after_initial(id) == IF id = NoneV THEN "scroll_done" ELSE "scroll_loop"

\* Whether the cluster may answer anything at all: scroll_data called on its
\* own. Under save() the cluster answers as Elasticsearch 2.0 answers a scan.
Adversarial == op.name = "scroll"

Min(a, b) == IF a <= b THEN a ELSE b

\* The answers to the initial search: <<scroll id, hits, matching documents>>.
\* A scan answers with a scroll id and no hits.
InitialAnswers ==
    IF Adversarial THEN {<<c, n, 0>> : c \in Cursors, n \in 0..MaxBatch}
    ELSE {<<<<"c1">>, 0, t>> : t \in 0..MaxDocs}

\* The answers to a scroll-continuation request: <<scroll id, whether the body
\* has hits.hits, hits>>. A scan answers with the next documents, and with an
\* empty hit list when none is left.
ContinuationAnswers ==
    IF Adversarial
    THEN {a \in Cursors \X BOOLEAN \X (0..MaxBatch) : a[2] \/ a[3] = 0}
    ELSE {<<<<"c1">>, TRUE, n>> :
             n \in IF stock = 0 THEN {0} ELSE 1..Min(MaxBatch, stock)}

\* lines 110-116: the initial search; without a scroll id the generator returns.
ScrollInitial ==
    /\ pc = "scroll"
    /\ \E a \in InitialAnswers :
          LET r == Response(a[1], TRUE, 1, a[2])
              u == type_url(self.uri, cur.index, cur.type)
          IN /\ http' = Append(http, Request("GET", u, NoneV, "ok"))
             /\ reqs' = <<u>>
             /\ resps' = <<r>>
             /\ resp' = r
             /\ served' = a[2]
             /\ stock' = a[3]
             /\ scroll_id' = r.scroll_id
             /\ pc' = after_initial(r.scroll_id)
    /\ pending' = <<>>
    /\ yielded' = <<>>
    /\ UNCHANGED <<configVars, files, err, op, calls, mappingVars, uploadVars, fileops>>

\* lines 125-129: one scroll-continuation request with the current scroll_id.
\* A body without hits.hits raises KeyError at line 129.
ScrollRequest ==
    /\ pc = "scroll_loop"
    /\ Len(reqs) <= MaxRequests
    /\ \E a \in ContinuationAnswers :
          LET r == Response(a[1], a[2], served + 1, a[3])
              u == scroll_url(self.uri, scroll_id)
          IN /\ http' = Append(http, Request("GET", u, NoneV, "ok"))
             /\ reqs' = Append(reqs, u)
             /\ resps' = Append(resps, r)
             /\ resp' = r
             /\ served' = served + Len(r.hits)
             /\ stock' = IF Adversarial THEN stock ELSE stock - Len(r.hits)
             /\ pending' = r.hits
             /\ pc' = IF a[2] THEN "scroll_yield" ELSE "raised"
             /\ err' = IF a[2] THEN err ELSE "KeyError: hits"
    /\ UNCHANGED <<configVars, files, op, calls, mappingVars, uploadVars, fileops,
                   scroll_id, yielded>>

ScrollYield_mutant ==
    /\ pc = "scroll_yield"
    /\ pending # <<>>
    /\ yielded' = <<Head(pending)>> \o yielded
    /\ pending' = Tail(pending)
    /\ UNCHANGED <<configVars, files, http, pc, err, op, calls, mappingVars,
                   uploadVars, fileops, scroll_id, resp, reqs, resps, served, stock>>

\* lines 129-130: yield the next hit of the response.
ScrollYield ==
    /\ pc = "scroll_yield"
    /\ pending # <<>>
    /\ yielded' = Append(yielded, Head(pending))
    /\ pending' = Tail(pending)
    /\ UNCHANGED <<configVars, files, http, pc, err, op, calls, mappingVars,
                   uploadVars, fileops, scroll_id, resp, reqs, resps, served, stock>>

scroll_break_mutant(id, r) == id = NoneV

\* line 133: whether the loop ends after this response.
scroll_break(id, r) == id = NoneV \/ r.hits = <<>>

\* lines 132-134: take the response's scroll id; stop without one or without hits.
ScrollAdvance ==
    /\ pc = "scroll_yield"
    /\ pending = <<>>
    /\ scroll_id' = resp.scroll_id
    /\ pc' = IF scroll_break(resp.scroll_id, resp) THEN "scroll_done" ELSE "scroll_loop"
    /\ UNCHANGED <<configVars, files, http, err, op, calls, mappingVars, uploadVars,
                   fileops, resp, pending, yielded, reqs, resps, served, stock>>

\* lines 112, 127: session.get raises (timeout, connection error); the request
\* has no response.
ScrollTransportError ==
    /\ pc \in {"scroll", "scroll_loop"}
    /\ pc = "scroll" \/ Len(reqs) <= MaxRequests
    /\ LET u == IF pc = "scroll" THEN type_url(self.uri, cur.index, cur.type)
                ELSE scroll_url(self.uri, scroll_id)
       IN /\ http' = Append(http, Request("GET", u, NoneV, "raised"))
          /\ reqs' = IF pc = "scroll" THEN <<u>> ELSE Append(reqs, u)
    /\ resps' = IF pc = "scroll" THEN <<>> ELSE resps
    /\ yielded' = IF pc = "scroll" THEN <<>> ELSE yielded
    /\ pc' = "raised"
    /\ err' = "TransportError"
    /\ UNCHANGED <<configVars, files, op, calls, mappingVars, uploadVars, fileops,
                   scroll_id, resp, pending, served, stock>>

\* The consumer stops taking hits: the suspended generator is closed.
ScrollClose ==
    /\ pc = "scroll_yield"
    /\ op.name = "scroll"
    /\ pc' = "scroll_closed"
    /\ UNCHANGED <<configVars, files, http, err, op, calls, mappingVars, uploadVars,
                   fileops, scrollVars>>

(***************************************************************************)
(* EsProcessing.query_from_url and EsProcessing.query_mappings             *)
(***************************************************************************)
\* A mapping document is a JSON object in the order of its keys: a sequence of
\* entries. An entry of the document has a key and, if has_mappings, the
\* object under 'mappings', itself a sequence of entries: a type key and what
\* .get('properties') gives for it (NoneV: no such key).
DocEntry(k, has, m) == [key |-> k, has_mappings |-> has, mappings |-> m]
TypeEntry(k, p) == [key |-> k, props |-> p]

\* The record variable of a loop that has not started.
NoRecord == [index |-> NoneV, type |-> NoneV, schema |-> NoneV]

\* The body of an error response: test_query_from_url_err.
ErrorEntry == DocEntry(<<"error">>, FALSE, <<>>)
StatusEntry == DocEntry(<<"status">>, FALSE, <<>>)

\* The mappings of the type data in test_ep.py's fixture.
SchemaData == <<"content", "env">>

\* key in doc
HasKey(doc, k) == \E j \in 1..Len(doc) : doc[j].key = k

\* doc[key], for a key of doc
Lookup(doc, k) == doc[CHOOSE j \in 1..Len(doc) : doc[j].key = k]

\* mapping_url: line 58
mapping_url(uri, index) == make_url(uri, <<index, <<"_mapping">>>>, <<>>)

\* lines 65-73: what query_from_url does with the decoded body: the exception
\* it raises ("none": it returns the body). Both AttributeErrors are told apart
\* by their message: 'Invalid url path' is InvalidRequest, 'Mapping of index
\* ... has not been set' is MappingNotFound.
query_from_url(index, body) ==
    IF HasKey(body, <<"error">>) THEN "InvalidRequest"
    ELSE IF Truthy(index) /\ ~HasKey(body, index) THEN "KeyError: index_name"
    ELSE IF Truthy(index) /\ (~Lookup(body, index).has_mappings
                              \/ Lookup(body, index).mappings = <<>>)
    THEN "MappingNotFound"
    ELSE "none"

excludes_mutant == {<<"_default_">>, <<"_all">>}

\* line 79
excludes == {<<"_default_">>, <<"_all">>, <<"properties">>}

\* lines 83-88: the records of one index, in the order of its type keys
RECURSIVE index_records(_, _)
index_records(i, mappings) ==
    IF mappings = <<>> THEN <<>>
    ELSE LET m == Head(mappings)
             rest == index_records(i, Tail(mappings))
         IN IF m.key \in excludes THEN rest
            ELSE <<[index |-> i, type |-> m.key, schema |-> m.props]>> \o rest

\* lines 80-88: the records query_mappings yields from data, in order, and
\* whether it then raises KeyError: data[i]['mappings'] of an entry without it.
RECURSIVE query_mappings(_)
query_mappings(doc) ==
    IF doc = <<>> THEN [recs |-> <<>>, raises |-> FALSE]
    ELSE IF ~Head(doc).has_mappings THEN [recs |-> <<>>, raises |-> TRUE]
    ELSE LET rest == query_mappings(Tail(doc))
         IN [recs |-> index_records(Head(doc).key, Head(doc).mappings) \o rest.recs,
             raises |-> rest.raises]

\* Where each caller of query_mappings goes on.
LoopOf(p) ==
    CASE p = "query_mappings" -> "mappings_loop"
      [] p = "dump_mapping" -> "dump_mapping_loop"
      [] p = "dump_data" -> "dump_data_loop"

\* lines 58-73, 76: the first next() of query_mappings runs query_from_url: the
\* GET of the mapping document, and the two checks of its body.
QueryFromUrl ==
    /\ pc \in {"query_mappings", "dump_mapping", "dump_data"}
    /\ LET raised == query_from_url(self.index_name, cluster)
           gen == query_mappings(cluster)
       IN /\ http' = Append(http, Request("GET", mapping_url(self.uri, self.index_name),
                                          NoneV, "ok"))
          /\ err' = raised
          /\ pc' = IF raised = "none" THEN LoopOf(pc) ELSE "raised"
          /\ data' = IF raised = "none" THEN cluster ELSE data
          /\ recs' = IF raised = "none" THEN gen.recs ELSE <<>>
          /\ genraise' = (raised = "none" /\ gen.raises)
    /\ taken' = <<>>
    /\ UNCHANGED <<configVars, files, op, calls, cur, scrollVars, uploadVars, fileops>>

\* line 60: session.get raises.
QueryTransportError ==
    /\ pc \in {"query_mappings", "dump_mapping", "dump_data"}
    /\ http' = Append(http, Request("GET", mapping_url(self.uri, self.index_name),
                                    NoneV, "raised"))
    /\ err' = "TransportError"
    /\ pc' = "raised"
    /\ UNCHANGED <<configVars, files, op, calls, mappingVars, scrollVars, uploadVars,
                   fileops>>

\* next(m) of a caller that only takes the records (test_query_mappings).
MappingsNext ==
    /\ pc = "mappings_loop"
    /\ recs # <<>>
    /\ taken' = Append(taken, Head(recs))
    /\ recs' = Tail(recs)
    /\ UNCHANGED <<configVars, files, http, pc, err, op, calls, data, genraise, cur,
                   scrollVars, uploadVars, fileops>>

\* The generator is exhausted, or raises KeyError at line 81.
MappingsEnd ==
    /\ pc = "mappings_loop"
    /\ recs = <<>>
    /\ pc' = IF genraise THEN "raised" ELSE "mappings_done"
    /\ err' = IF genraise THEN "KeyError: mappings" ELSE err
    /\ UNCHANGED <<configVars, files, http, op, calls, mappingVars, scrollVars,
                   uploadVars, fileops>>

(***************************************************************************)
(* json.dump and json.load of the two documents the program stores         *)
(***************************************************************************)
\* A decoded JSON value: the dict {'properties': ...}, a list of hits, or no
\* value at all when the text is no JSON document.
JsonDict(schema) == [kind |-> "dict", properties |-> schema, items |-> <<>>]
JsonList(hits) == [kind |-> "list", properties |-> NoneV, items |-> hits]
JsonError == [kind |-> "error", properties |-> NoneV, items |-> <<>>]

json_schema(schema) ==
    IF schema = NoneV THEN <<"null">> ELSE <<"{">> \o schema \o <<"}">>

json_hit(h) ==
    <<"{", "_id", ":">> \o h.id \o <<",", "_source", ":">> \o h.source \o <<"}">>

\* json.dump(v, f, ensure_ascii=False), json.dumps(v)
json_dump(v) ==
    IF v.kind = "dict"
    THEN <<"{", "properties", ":">> \o json_schema(v.properties) \o <<"}">>
    ELSE <<"[">>
         \o Join(<<",">>, [k \in 1..Len(v.items) |-> json_hit(v.items[k])])
         \o <<"]">>

\* json.load(f). An empty file is no JSON document: ValueError.
json_load(t) ==
    IF t = <<>> THEN JsonError
    ELSE IF Head(t) = "["
    THEN LET inner == SubSeq(t, 2, Len(t) - 1)
             n == (Len(inner) + 1) \div 10
         IN JsonList([k \in 1..n |->
                        [id |-> <<inner[10 * (k - 1) + 4]>>,
                         source |-> <<inner[10 * (k - 1) + 8]>>]])
    ELSE LET val == SubSeq(t, 4, Len(t) - 1)
         IN JsonDict(IF val = <<"null">> THEN NoneV ELSE SubSeq(val, 2, Len(val) - 1))

(***************************************************************************)
(* The local directory                                                     *)
(***************************************************************************)
\* os.path.exists(fp)
Exists(fp) == \E f \in files : f.path = fp

FileAt(fp) == CHOOSE f \in files : f.path = fp

\* open(fp, 'w') and what is written; index, type and kind note the dump.
WriteFile(fp, text, i, kind) ==
    {f \in files : f.path # fp}
    \cup {[path |-> fp, content |-> text, index |-> i.index, type |-> i.type,
           kind |-> kind]}

FileOp(mode, fp, i, kind) ==
    [mode |-> mode, path |-> fp, index |-> i.index, type |-> i.type, kind |-> kind]

\* The files os.walk(dirname) finds there, by name.
Listing(dirname) ==
    {SubSeq(f.path, Len(dirname) + 2, Len(f.path)) :
        f \in {g \in files : StartsWith(g.path, dirname \o <<"/">>)}}

dir_exists_mutant(dirname) == Truthy(dirname)

\* lines 154, 211: self.dirname and os.path.exists(self.dirname)
dir_exists(dirname) == Truthy(dirname) /\ dirname \in dirs

(***************************************************************************)
(* EsProcessing.save, dump_mapping, dump_data                              *)
(***************************************************************************)
\* The locals of a call are gone when it has returned.
LocalsGone ==
    /\ data' = <<>>
    /\ recs' = <<>>
    /\ taken' = <<>>
    /\ genraise' = FALSE
    /\ cur' = NoRecord
    /\ scroll_id' = NoneV
    /\ resp' = NoResponse
    /\ pending' = <<>>
    /\ yielded' = <<>>
    /\ reqs' = <<>>
    /\ resps' = <<>>
    /\ served' = 0
    /\ stock' = 0
    /\ type_name' = NoneV
    /\ todo' = {}
    /\ docs' = <<>>

\* lines 153-155: save() starts; IOError without the directory.
CallSave ==
    /\ pc = "idle"
    /\ Len(calls) < MaxOps
    /\ op' = [name |-> "save", type_name |-> NoneV]
    /\ http' = <<>>
    /\ fileops' = <<>>
    /\ derived' = <<>>
    /\ pc' = IF dir_exists(self.dirname) THEN "dump_mapping" ELSE "raised"
    /\ err' = IF dir_exists(self.dirname) THEN "none" ELSE "DirectoryNotFound"
    /\ UNCHANGED <<configVars, files, calls, mappingVars, scrollVars, type_name, todo,
                   docs, stored>>

\* lines 92-99: one turn of dump_mapping's loop.
DumpMappingWrite ==
    /\ pc = "dump_mapping_loop"
    /\ recs # <<>>
    /\ LET i == Head(recs)
           fp == make_fp(self.dirname, <<i.index, i.type, <<"mapping">>>>)
       IN /\ cur' = i
          /\ files' = WriteFile(fp, json_dump(JsonDict(i.schema)), i, "mapping")
          /\ fileops' = Append(fileops, FileOp("w", fp, i, "mapping"))
    /\ taken' = Append(taken, Head(recs))
    /\ recs' = Tail(recs)
    /\ UNCHANGED <<configVars, http, pc, err, op, calls, data, genraise, scrollVars,
                   uploadVars>>

\* line 92, 159: the generator is exhausted and dump_data starts, or the
\* generator raises KeyError at line 81.
DumpMappingEnd ==
    /\ pc = "dump_mapping_loop"
    /\ recs = <<>>
    /\ pc' = IF genraise THEN "raised" ELSE "dump_data"
    /\ err' = IF genraise THEN "KeyError: mappings" ELSE err
    /\ UNCHANGED <<configVars, files, http, op, calls, mappingVars, scrollVars,
                   uploadVars, fileops>>

\* lines 138-148: one turn of dump_data's loop up to the call of scroll_data;
\* open(fp, 'w') empties the file.
DumpDataOpen ==
    /\ pc = "dump_data_loop"
    /\ recs # <<>>
    /\ LET i == Head(recs)
           fp == make_fp(self.dirname, <<i.index, i.type>>)
       IN /\ cur' = i
          /\ files' = WriteFile(fp, <<>>, i, "document")
          /\ fileops' = Append(fileops, FileOp("w", fp, i, "document"))
    /\ taken' = Append(taken, Head(recs))
    /\ recs' = Tail(recs)
    /\ pc' = "scroll"
    /\ UNCHANGED <<configVars, http, err, op, calls, data, genraise, scrollVars,
                   uploadVars>>

\* lines 148-151: the generator is drained; the hits are written.
DumpDataWrite ==
    /\ pc = "scroll_done"
    /\ op.name = "save"
    /\ LET fp == make_fp(self.dirname, <<cur.index, cur.type>>)
       IN files' = WriteFile(fp, json_dump(JsonList(yielded)), cur, "document")
    /\ pc' = "dump_data_loop"
    /\ scroll_id' = NoneV
    /\ resp' = NoResponse
    /\ pending' = <<>>
    /\ yielded' = <<>>
    /\ reqs' = <<>>
    /\ resps' = <<>>
    /\ served' = 0
    /\ stock' = 0
    /\ UNCHANGED <<configVars, http, err, op, calls, mappingVars, uploadVars, fileops>>

\* line 138: the generator is exhausted and save() returns, or the generator
\* raises KeyError at line 81.
DumpDataEnd ==
    /\ pc = "dump_data_loop"
    /\ recs = <<>>
    /\ pc' = IF genraise THEN "raised" ELSE "idle"
    /\ err' = IF genraise THEN "KeyError: mappings" ELSE err
    /\ calls' = IF genraise THEN calls ELSE Append(calls, op)
    /\ IF genraise
       THEN UNCHANGED <<mappingVars, scrollVars, type_name, todo, docs>>
       ELSE LocalsGone
    /\ UNCHANGED <<configVars, files, http, op, fileops, derived, stored>>

(***************************************************************************)
(* EsProcessing.upload, upload_mapping, upload_data                        *)
(***************************************************************************)
\* The type names upload() is called with: none, or one.
UploadTypes == {NoneV, <<"data">>}

\* lines 205-219: upload() starts; IOError without the directory; with a
\* type name its mapping is uploaded next, without one os.walk lists the files.
CallUpload ==
    /\ pc = "idle"
    /\ Len(calls) < MaxOps
    /\ \E t \in UploadTypes :
          /\ op' = [name |-> "upload", type_name |-> t]
          /\ type_name' = t
          /\ pc' = IF ~dir_exists(self.dirname) THEN "raised"
                   ELSE IF Truthy(t) THEN "upload_mapping"
                   ELSE "upload_scan"
          /\ todo' = IF dir_exists(self.dirname) /\ ~Truthy(t)
                     THEN Listing(self.dirname) ELSE {}
    /\ http' = <<>>
    /\ fileops' = <<>>
    /\ derived' = <<>>
    /\ err' = IF dir_exists(self.dirname) THEN "none" ELSE "DirectoryNotFound"
    /\ UNCHANGED <<configVars, files, calls, mappingVars, scrollVars, docs, stored>>

\* line 223: os.path.splitext(f)[0].rsplit('.')[1], for a name with a dot in
\* its root
derive_type(f) == SplitDot(splitext_root(f))[2]

\* lines 220-223: the next file of the walk; a name not ending in .json is
\* skipped, the others give a type name (IndexError without a second part).
UploadScanNext ==
    /\ pc = "upload_scan"
    /\ \E f \in todo :
          /\ todo' = todo \ {f}
          /\ IF ~EndsWith(f, ExtJson)
             THEN UNCHANGED <<pc, err, type_name, derived>>
             ELSE IF Len(SplitDot(splitext_root(f))) < 2
             THEN /\ pc' = "raised"
                  /\ err' = "IndexError"
                  /\ UNCHANGED <<type_name, derived>>
             ELSE /\ pc' = "upload_mapping"
                  /\ type_name' = derive_type(f)
                  /\ derived' = Append(derived, [file |-> f, type |-> derive_type(f)])
                  /\ err' = err
    /\ UNCHANGED <<configVars, files, http, op, calls, mappingVars, scrollVars, docs,
                   fileops, stored>>

\* line 219: the walk is over; upload() returns.
UploadScanEnd ==
    /\ pc = "upload_scan"
    /\ todo = {}
    /\ pc' = "idle"
    /\ calls' = Append(calls, op)
    /\ LocalsGone
    /\ UNCHANGED <<configVars, files, http, err, op, fileops, derived, stored>>

\* line 168
mapping_put_url(uri, index, type) ==
    make_url(uri, <<index, <<"_mapping">>, type>>, <<>>)

\* lines 163-179: upload_mapping: IOError without the file, else the PUT of
\* what it holds; session.put may raise.
UploadMapping ==
    /\ pc = "upload_mapping"
    /\ LET fp == make_fp(self.dirname, <<self.index_name, type_name, <<"mapping">>>>)
           i == [index |-> self.index_name, type |-> type_name]
       IN IF ~Exists(fp)
          THEN /\ pc' = "raised"
               /\ err' = "FileNotFound"
               /\ UNCHANGED <<http, fileops>>
          ELSE /\ fileops' = Append(fileops, FileOp("r", fp, i, "mapping"))
               /\ IF json_load(FileAt(fp).content) = JsonError
                  THEN /\ pc' = "raised"
                       /\ err' = "ValueError"
                       /\ UNCHANGED http
                  ELSE \E raised \in BOOLEAN :
                          /\ http' = Append(http,
                                Request("PUT",
                                        mapping_put_url(self.uri, self.index_name, type_name),
                                        json_dump(json_load(FileAt(fp).content)),
                                        IF raised THEN "raised" ELSE "ok"))
                          /\ pc' = IF raised THEN "raised" ELSE "upload_data"
                          /\ err' = IF raised THEN "TransportError" ELSE err
    /\ UNCHANGED <<configVars, files, op, calls, mappingVars, scrollVars, uploadVars>>

\* lines 185-194: upload_data up to its loop: IOError without the file. A file
\* holding a dict gives its keys to the loop, and i.get raises AttributeError.
UploadDataOpen ==
    /\ pc = "upload_data"
    /\ LET fp == make_fp(self.dirname, <<self.index_name, type_name>>)
           i == [index |-> self.index_name, type |-> type_name]
       IN IF ~Exists(fp)
          THEN /\ pc' = "raised"
               /\ err' = "FileNotFound"
               /\ UNCHANGED <<docs, fileops>>
          ELSE /\ fileops' = Append(fileops, FileOp("r", fp, i, "document"))
               /\ LET v == json_load(FileAt(fp).content)
                  IN /\ pc' = IF v.kind = "list" THEN "upload_data_loop" ELSE "raised"
                     /\ err' = CASE v.kind = "list" -> err
                                 [] v.kind = "dict" -> "AttributeError"
                                 [] OTHER -> "ValueError"
                     /\ docs' = v.items
    /\ UNCHANGED <<configVars, files, http, op, calls, mappingVars, scrollVars,
                   type_name, todo, derived, stored>>

doc_url_mutant(uri, index, type, type_id) ==
    make_url(uri, <<index, type, type_id>>, <<>>)

\* lines 197-198
doc_url(uri, index, type, type_id) ==
    make_url(uri, <<index, type, type_id>>, <<<<<<"op_type">>, <<"create">>>>>>)

UploadDataPut_mutant ==
    /\ pc = "upload_data_loop"
    /\ docs # <<>>
    /\ LET i == Head(docs)
           key == [index |-> self.index_name, type |-> type_name, id |-> i.id]
       IN \E raised \in BOOLEAN :
             /\ http' = Append(http,
                   Request("PUT", doc_url(self.uri, self.index_name, type_name, i.id),
                           i.source,
                           IF raised THEN "raised"
                           ELSE IF key \in stored THEN "conflict" ELSE "ok"))
             /\ stored' = IF raised THEN stored ELSE stored \cup {key}
             /\ UNCHANGED <<pc, err>>
    /\ docs' = Tail(docs)
    /\ UNCHANGED <<configVars, files, op, calls, mappingVars, scrollVars, type_name,
                   todo, derived, fileops>>

\* lines 194-203: one turn of upload_data's loop: the PUT of a document with
\* op_type=create. The index answers 409 for an id it has; that response is
\* printed like any other. session.put may raise, which ends upload().
UploadDataPut ==
    /\ pc = "upload_data_loop"
    /\ docs # <<>>
    /\ LET i == Head(docs)
           key == [index |-> self.index_name, type |-> type_name, id |-> i.id]
       IN \E raised \in BOOLEAN :
             /\ http' = Append(http,
                   Request("PUT", doc_url(self.uri, self.index_name, type_name, i.id),
                           i.source,
                           IF raised THEN "raised"
                           ELSE IF key \in stored THEN "conflict" ELSE "ok"))
             /\ stored' = IF raised THEN stored ELSE stored \cup {key}
             /\ pc' = IF raised THEN "raised" ELSE pc
             /\ err' = IF raised THEN "TransportError" ELSE err
    /\ docs' = Tail(docs)
    /\ UNCHANGED <<configVars, files, op, calls, mappingVars, scrollVars, type_name,
                   todo, derived, fileops>>

\* line 194: the documents are done: upload() returns (lines 216-217), or the
\* walk goes on (line 220).
UploadDataEnd ==
    /\ pc = "upload_data_loop"
    /\ docs = <<>>
    /\ IF Truthy(op.type_name)
       THEN /\ pc' = "idle"
            /\ calls' = Append(calls, op)
            /\ LocalsGone
       ELSE /\ pc' = "upload_scan"
            /\ UNCHANGED <<calls, mappingVars, scrollVars, type_name, todo, docs>>
    /\ UNCHANGED <<configVars, files, http, err, op, fileops, derived, stored>>

(***************************************************************************)
(* The program: save() and upload() called on one object, in any order     *)
(***************************************************************************)
IndexTest == <<"test">>
IndexDotted == <<"a", ".", "b">>

\* What the cluster holds: the mapping document of all its indices.
Catalogs ==
    { << DocEntry(IndexTest, TRUE,
                  << TypeEntry(<<"_default_">>, NoneV),
                     TypeEntry(<<"data">>, SchemaData) >>) >>,
      << DocEntry(IndexTest, TRUE,
                  << TypeEntry(<<"data">>, SchemaData),
                     TypeEntry(<<"other">>, NoneV) >>),
         DocEntry(IndexDotted, TRUE, <<TypeEntry(<<"data">>, SchemaData)>>) >>,
      << DocEntry(<<"a">>, TRUE, <<TypeEntry(<<"b">>, SchemaData)>>),
         DocEntry(IndexDotted, TRUE, <<TypeEntry(<<"mapping">>, NoneV)>>) >> }

\* The body Elasticsearch answers GET <uri>/[<index>/]_mapping with.
Serve(catalog, index) ==
    IF ~Truthy(index) THEN catalog
    ELSE IF HasKey(catalog, index) THEN <<Lookup(catalog, index)>>
    ELSE <<ErrorEntry, StatusEntry>>

Dir == <<"dir">>

\* A file of the directory that no dump has written.
Stray ==
    [path |-> Dir \o <<"/", "README">>, content |-> <<"text">>, index |-> NoneV,
     type |-> NoneV, kind |-> "none"]

Init ==
    /\ self \in [uri : {<<"uri">>}, index_name : {NoneV, IndexTest, IndexDotted},
                 dirname : {NoneV, Dir, <<"nodir">>}]
    /\ dirs = {Dir}
    /\ files \in {{}, {Stray}}
    /\ \E k \in Catalogs : cluster = Serve(k, self.index_name)
    /\ pc = "idle"
    /\ op = [name |-> "none", type_name |-> NoneV]
    /\ cur = NoRecord
    /\ Untouched

Next ==
    \/ CallSave
    \/ QueryFromUrl
    \/ QueryTransportError
    \/ DumpMappingWrite
    \/ DumpMappingEnd
    \/ DumpDataOpen
    \/ ScrollInitial
    \/ ScrollRequest
    \/ ScrollYield
    \/ ScrollAdvance
    \/ ScrollTransportError
    \/ DumpDataWrite
    \/ DumpDataEnd
    \/ CallUpload
    \/ UploadScanNext
    \/ UploadScanEnd
    \/ UploadMapping
    \/ UploadDataOpen
    \/ UploadDataPut
    \/ UploadDataEnd

Spec == Init /\ [][Next]_vars

\* C6: with dirname unset or not a directory that exists, save() and
\* upload(), with or without a type name, raise the IOError for the directory
\* before any request is issued and before any file is opened.
C6_NoDirectoryFailsFirst ==
    (op.name \in {"save", "upload"}
        /\ ~(self.dirname # NoneV /\ self.dirname # <<>> /\ self.dirname \in dirs))
    => /\ pc = "raised"
       /\ err = "DirectoryNotFound"
       /\ http = <<>>
       /\ fileops = <<>>
       /\ files \subseteq {Stray}

C6_Witness ==
    /\ pc = "raised"
    /\ err = "DirectoryNotFound"
    /\ op = [name |-> "upload", type_name |-> <<"data">>]
    /\ self.dirname = <<"nodir">>

\* Whether a logged request is the PUT of a document.
IsDocPut(r) ==
    r.method = "PUT" /\ EndsWith(r.url, <<"?", "op_type", "=", "create">>)

\* C7 as stated: during upload() no document PUT is issued after a PUT that
\* failed, whether it raised or was answered with an error status.
C7_AsStated ==
    op.name = "upload" =>
        \A j \in 1..Len(http) : \A k \in (j + 1)..Len(http) :
            ~(http[j].method = "PUT" /\ http[j].result # "ok" /\ IsDocPut(http[k]))

\* C7, amended: a request of upload() that raised is the last request of the
\* call, which has ended with that exception: the documents after it are not
\* attempted. (A PUT answered with an error status is printed and the next
\* document is uploaded.)
C7_RaiseAborts ==
    op.name = "upload" =>
        \A j \in 1..Len(http) :
            http[j].result = "raised" => /\ j = Len(http)
                                         /\ pc = "raised"
                                         /\ err = "TransportError"

C7_Witness ==
    /\ op.name = "upload"
    /\ pc = "raised"
    /\ Len(http) >= 2
    /\ IsDocPut(http[Len(http)])
    /\ http[Len(http)].result = "raised"
    /\ docs # <<>>

\* C8 as stated: two files save() opens for writing for different (index,
\* type, kind) have different paths.
C8_AsStated ==
    op.name = "save" =>
        \A j, k \in 1..Len(fileops) :
            ( /\ fileops[j].mode = "w" /\ fileops[k].mode = "w"
              /\ <<fileops[j].index, fileops[j].type, fileops[j].kind>>
                   # <<fileops[k].index, fileops[k].type, fileops[k].kind>> )
            => fileops[j].path # fileops[k].path

\* C9: after save() has dumped index test, whose one type data has two
\* documents, upload(type_name='data') from the same directory into an empty
\* index has issued the PUT of {"properties": schema} to the mapping of data and
\* then one PUT with op_type=create per document, to the url of its _id with
\* its _source as body, and nothing else.
C9_EndToEnd ==
    ( /\ pc = "idle"
      /\ calls = << [name |-> "save", type_name |-> NoneV],
                    [name |-> "upload", type_name |-> <<"data">>] >>
      /\ self.index_name = <<"test">>
      /\ cluster = << DocEntry(<<"test">>, TRUE,
                               << TypeEntry(<<"_default_">>, NoneV),
                                  TypeEntry(<<"data">>, <<"content", "env">>) >>) >>
      /\ \E f \in files :
            /\ f.path = <<"dir", "/", "test", ".", "data", ".", "json">>
            /\ f.content = << "[", "{", "_id", ":", "d1", ",", "_source", ":", "src1", "}",
                              ",", "{", "_id", ":", "d2", ",", "_source", ":", "src2", "}",
                              "]" >> )
    => http = << [method |-> "PUT",
                  url |-> <<"uri", "/", "test", "/", "_mapping", "/", "data">>,
                  body |-> <<"{", "properties", ":", "{", "content", "env", "}", "}">>,
                  result |-> "ok"],
                 [method |-> "PUT",
                  url |-> <<"uri", "/", "test", "/", "data", "/", "d1",
                            "?", "op_type", "=", "create">>,
                  body |-> <<"src1">>,
                  result |-> "ok"],
                 [method |-> "PUT",
                  url |-> <<"uri", "/", "test", "/", "data", "/", "d2",
                            "?", "op_type", "=", "create">>,
                  body |-> <<"src2">>,
                  result |-> "ok"] >>

C9_Witness ==
    /\ pc = "idle"
    /\ calls = << [name |-> "save", type_name |-> NoneV],
                  [name |-> "upload", type_name |-> <<"data">>] >>
    /\ self.index_name = <<"test">>
    /\ Len(cluster) = 1 /\ Len(cluster[1].mappings) = 2
    /\ Len(http) = 3
    /\ stored = {[index |-> <<"test">>, type |-> <<"data">>, id |-> <<"d1">>],
                 [index |-> <<"test">>, type |-> <<"data">>, id |-> <<"d2">>]}

\* C10 as stated: the type name upload() derives from the name of a file that
\* save() wrote for the configured index is the type the file was dumped for.
C10_AsStated ==
    op.name = "upload" =>
        \A k \in 1..Len(derived) :
            \A f \in files :
                ( /\ f.path = os_path_join(self.dirname, derived[k].file)
                  /\ f.kind \in {"mapping", "document"}
                  /\ f.index = self.index_name )
                => derived[k].type = f.type

(***************************************************************************)
(* query_mappings on its own: any configured index, any mapping document   *)
(***************************************************************************)
\* The elements of seq at the positions in S, in order.
RECURSIVE Pick(_, _)
Pick(seq, S) ==
    IF seq = <<>> THEN <<>>
    ELSE LET rest == Pick(Tail(seq), {k - 1 : k \in S \ {1}})
         IN IF 1 \in S THEN <<Head(seq)>> \o rest ELSE rest

\* The mappings of test_ep.py's fixture, the same with a type that has no
\* 'properties', and another order with a second type.
TypeEntryLists ==
    { << TypeEntry(<<"_default_">>, NoneV), TypeEntry(<<"_all">>, NoneV),
         TypeEntry(<<"properties">>, NoneV), TypeEntry(<<"data">>, SchemaData) >>,
      << TypeEntry(<<"_default_">>, NoneV), TypeEntry(<<"_all">>, NoneV),
         TypeEntry(<<"properties">>, NoneV), TypeEntry(<<"data">>, NoneV) >>,
      << TypeEntry(<<"other">>, <<"text">>), TypeEntry(<<"data">>, SchemaData),
         TypeEntry(<<"properties">>, <<"text">>), TypeEntry(<<"_all">>, NoneV) >> }

\* Every selection of type keys from those.
MappingsObjects ==
    {Pick(l, S) : l \in TypeEntryLists, S \in SUBSET (1..4)}

IndexKeys == {<<"test">>, <<"idx">>}

IndexEntries ==
    {DocEntry(k, TRUE, m) : k \in IndexKeys, m \in MappingsObjects}
    \cup {DocEntry(k, FALSE, <<>>) : k \in IndexKeys}

\* The bodies the cluster may answer the mapping request with.
MappingBodies ==
    {<<>>, <<ErrorEntry, StatusEntry>>}
    \cup {<<e>> : e \in IndexEntries}
    \cup {<<e, ErrorEntry>> : e \in IndexEntries}
    \cup {<<e1, e2>> : e1 \in {e \in IndexEntries : e.key = <<"test">>},
                       e2 \in {e \in IndexEntries : e.key = <<"idx">>}}
    \cup {<<e2, e1>> : e1 \in {e \in IndexEntries : e.key = <<"test">>},
                       e2 \in {e \in IndexEntries : e.key = <<"idx">>}}

InitMappings ==
    /\ self \in [uri : {<<"uri">>}, index_name : {NoneV, <<>>, <<"test">>},
                 dirname : {NoneV}]
    /\ dirs = {}
    /\ files = {}
    /\ cluster \in MappingBodies
    /\ pc = "query_mappings"
    /\ op = [name |-> "query_mappings", type_name |-> NoneV]
    /\ cur = NoRecord
    /\ Untouched

NextMappings ==
    \/ QueryFromUrl
    \/ QueryTransportError
    \/ MappingsNext
    \/ MappingsEnd

SpecMappings == InitMappings /\ [][NextMappings]_vars

Reserved == {<<"_default_">>, <<"_all">>, <<"properties">>}

\* The (entry, type entry) positions of doc whose type key is not reserved.
TypePositions(doc) ==
    {<<j, l>> \in (1..Len(doc)) \X (1..4) :
        /\ l <= Len(doc[j].mappings)
        /\ doc[j].mappings[l].key \notin Reserved}

Fixture ==
    << DocEntry(<<"test">>, TRUE,
                << TypeEntry(<<"_default_">>, NoneV), TypeEntry(<<"_all">>, NoneV),
                   TypeEntry(<<"properties">>, NoneV),
                   TypeEntry(<<"data">>, SchemaData) >>) >>

\* C4: query_mappings never yields a record whose type is _default_, _all or
\* properties; once exhausted it has yielded exactly one record {index, type,
\* schema: mappings[type].properties} for every index and type key that is
\* none of the three; for the fixture of test_ep.py that is the one record of
\* type data.
C4_OneRecordPerType ==
    /\ \A k \in 1..Len(taken) : taken[k].type \notin Reserved
    /\ pc = "mappings_done" =>
          /\ Len(taken) = Cardinality(TypePositions(data))
          /\ \A p \in TypePositions(data) :
                Cardinality({k \in 1..Len(taken) :
                    taken[k] = [index |-> data[p[1]].key,
                                type |-> data[p[1]].mappings[p[2]].key,
                                schema |-> data[p[1]].mappings[p[2]].props]}) = 1
    /\ (pc = "mappings_done" /\ data = Fixture) =>
          taken = <<[index |-> <<"test">>, type |-> <<"data">>, schema |-> SchemaData]>>

C4_Witness ==
    /\ pc = "mappings_done"
    /\ data = Fixture
    /\ Len(taken) = 1

\* Whether the body has no mappings for the index: no entry for it, no
\* 'mappings' in its entry, or an empty one.
MappingsEmptyOrAbsent(body, index) ==
    \/ ~HasKey(body, index)
    \/ ~Lookup(body, index).has_mappings
    \/ Lookup(body, index).mappings = <<>>

\* C5 as stated: once query_from_url has its response, it has raised
\* InvalidRequest if the body has an error key, else MappingNotFound if an
\* index is configured and the body has no or empty mappings for it, and else
\* it has returned the body unchanged.
C5_AsStated ==
    (Len(http) = 1 /\ http[1].result = "ok") =>
        IF HasKey(cluster, <<"error">>) THEN pc = "raised" /\ err = "InvalidRequest"
        ELSE IF Truthy(self.index_name) /\ MappingsEmptyOrAbsent(cluster, self.index_name)
        THEN pc = "raised" /\ err = "MappingNotFound"
        ELSE /\ err \notin {"InvalidRequest", "MappingNotFound", "KeyError: index_name"}
             /\ data = cluster

(***************************************************************************)
(* scroll_data on its own: any index and type, any answers of the cluster  *)
(***************************************************************************)
Uris == {<<"uri">>, <<"uri", "/">>}

InitScroll ==
    /\ self \in [uri : Uris, index_name : {<<"test">>}, dirname : {NoneV}]
    /\ dirs = {}
    /\ files = {}
    /\ cluster = <<>>
    /\ pc = "scroll"
    /\ op = [name |-> "scroll", type_name |-> NoneV]
    /\ cur \in [index : {<<"test">>}, type : {<<"data">>, <<>>}, schema : {NoneV}]
    /\ Untouched

NextScroll ==
    \/ ScrollInitial
    \/ ScrollRequest
    \/ ScrollYield
    \/ ScrollAdvance
    \/ ScrollTransportError
    \/ ScrollClose

SpecScroll == InitScroll /\ [][NextScroll]_vars

\* The hits of the scroll-continuation responses of the run, in order.
ContinuationHits == Concat([k \in 1..(Len(resps) - 1) |-> resps[k + 1].hits])

\* C1 as stated: where the first response of the run has a scroll id C1 and two
\* hits, the second (requested with C1) a scroll id C2 and one hit and the
\* third (requested with C2) no scroll id, the generator ends having yielded
\* exactly those 2+1 = 3 hits in order.
C1_AsStated ==
    ( /\ pc = "scroll_done"
      /\ Len(resps) = 3
      /\ resps[1].scroll_id # NoneV /\ Len(resps[1].hits) = 2
      /\ reqs[2] = scroll_url(self.uri, resps[1].scroll_id)
      /\ resps[2].scroll_id # NoneV /\ Len(resps[2].hits) = 1
      /\ reqs[3] = scroll_url(self.uri, resps[2].scroll_id)
      /\ resps[3].scroll_id = NoneV )
    => yielded = resps[1].hits \o resps[2].hits

\* C1, amended: the hits yielded, followed by those of the current response
\* still to be yielded, are exactly the hits of the scroll-continuation
\* responses (every response but the initial search's) in the order the cluster
\* sent them, and when the generator has ended none is left to yield.
C1_YieldsContinuationHits ==
    /\ pc \in {"scroll_loop", "scroll_yield", "scroll_done", "scroll_closed"}
          => yielded \o pending = ContinuationHits
    /\ pc = "scroll_done" => /\ pending = <<>>
                             /\ yielded = ContinuationHits

C1_Witness ==
    /\ pc = "scroll_done"
    /\ Len(resps) = 4
    /\ Len(resps[1].hits) = 2
    /\ Len(resps[2].hits) = 2
    /\ Len(resps[3].hits) = 1
    /\ resps[4].scroll_id = NoneV /\ resps[4].hits = <<>>
    /\ Len(yielded) = 3

\* C2: an initial response without a scroll id ends the generator with nothing
\* yielded, no exception and no scroll-continuation request, whatever hits the
\* initial response carries.
C2_NoCursorEmpty ==
    (resps # <<>> /\ resps[1].scroll_id = NoneV)
    => /\ pc = "scroll_done"
       /\ yielded = <<>>
       /\ err = "none"
       /\ Len(reqs) = 1
       /\ Len(http) = 1

C2_Witness ==
    /\ resps # <<>>
    /\ resps[1].scroll_id = NoneV
    /\ Len(resps[1].hits) = MaxBatch
    /\ pc = "scroll_done"

\* Whether response k of the run ends it: it has no scroll id, or it is a
\* scroll-continuation response with an empty hit list.
EndsRun(k) ==
    \/ resps[k].scroll_id = NoneV
    \/ k >= 2 /\ resps[k].hits = <<>>

====
